---------------------------- MODULE Spec2Model ----------------------------
(***************************************************************************)
(* Model of the entry form of the Financial Health Analyzer                *)
(* (src/Frontend/src/pages/InputForm.jsx): the controlled-input state      *)
(* (formData, errors, isLoading), the change handler, the full validation  *)
(* pass, the submit handler with its scoring request, and the navigation   *)
(* to the results view; and the results view                               *)
(* (src/Frontend/src/pages/Dashboard.jsx): its guard on the navigation     *)
(* payload, its history request and its recommendations.                   *)
(*                                                                         *)
(* Text is a sequence of one-character strings.  A JavaScript number is a  *)
(* decimal m * 10^x whose mantissa m has no trailing zero, or NaN: equal   *)
(* numbers are equal records.  Every number the form computes from the     *)
(* texts below is a short decimal that a double holds exactly.             *)
(***************************************************************************)
EXTENDS Integers, Sequences, FiniteSets, TLC

VARIABLES
    formData,    \* useState: field name -> display text        (line 10)
    errors,      \* useState: partial map field name -> message (line 17)
    isLoading,   \* useState: boolean                           (line 18)
    pc,          \* position of the one running handleSubmit call
    valid,       \* what validateForm() returned in the step just taken, if it ran
    requests,    \* POST /predict requests in flight: their bodies
    view,        \* the route shown: the entry form or the results view
    navState,    \* location.state handed over by navigate()
    dash,        \* position of the results view: not mounted, mounted,
                 \* rendered (its effect pending), effect run
    historyRequests,  \* GET /history requests of the mounted results view in flight
    history,     \* useState of the results view: the records shown
    recommendations   \* what generateRecommendations() returned at the last render

\* the state of the results view
resultsVars == <<dash, historyRequests, history, recommendations>>

vars == <<formData, errors, isLoading, pc, valid, requests, view, navState,
          dash, historyRequests, history, recommendations>>

-----------------------------------------------------------------------------
(* Numbers *)

NaN == [nan |-> TRUE, m |-> 0, x |-> 0]

isNaN(n) == n.nan

RECURSIVE Pow10(_)
Pow10(k) == IF k <= 0 THEN 1 ELSE 10 * Pow10(k - 1)

\* the number m * 10^x, its mantissa freed of trailing zeros
RECURSIVE Num(_, _)
Num(m, x) ==
    IF m = 0 THEN [nan |-> FALSE, m |-> 0, x |-> 0]
    ELSE IF m % 10 = 0 THEN Num(m \div 10, x + 1)
    ELSE [nan |-> FALSE, m |-> m, x |-> x]

IntNum(k) == Num(k, 0)

MinOf(a, b) == IF a <= b THEN a ELSE b

RECURSIVE NumDigits(_)
NumDigits(k) == IF k < 10 THEN 1 ELSE 1 + NumDigits(k \div 10)

\* a + b and a - b of JavaScript numbers (NaN is contagious)
Plus(a, b) ==
    IF isNaN(a) \/ isNaN(b) THEN NaN
    ELSE LET lo == MinOf(a.x, b.x)
         IN  Num(a.m * Pow10(a.x - lo) + b.m * Pow10(b.x - lo), lo)

Minus(a, b) ==
    IF isNaN(a) \/ isNaN(b) THEN NaN
    ELSE LET lo == MinOf(a.x, b.x)
         IN  Num(a.m * Pow10(a.x - lo) - b.m * Pow10(b.x - lo), lo)

\* am * 10^ax > bm * 10^bx for am, bm > 0: by the number of integer digits
\* first, so that no mantissa is scaled beyond its own width
MagGt(am, ax, bm, bx) ==
    IF NumDigits(am) + ax # NumDigits(bm) + bx
    THEN NumDigits(am) + ax > NumDigits(bm) + bx
    ELSE LET lo == MinOf(ax, bx)
         IN  am * Pow10(ax - lo) > bm * Pow10(bx - lo)

\* a > b and a < b: false as soon as one side is NaN
Gt(a, b) ==
    /\ ~isNaN(a)
    /\ ~isNaN(b)
    /\ IF a.m > 0 /\ b.m > 0 THEN MagGt(a.m, a.x, b.m, b.x)
       ELSE IF a.m < 0 /\ b.m < 0 THEN MagGt(-b.m, b.x, -a.m, a.x)
       ELSE a.m > b.m

Lt(a, b) == Gt(b, a)

\* a * b
Times(a, b) ==
    IF isNaN(a) \/ isNaN(b) THEN NaN ELSE Num(a.m * b.m, a.x + b.x)

\* a / b > c and a / b < c for c > 0, without forming the quotient: a / 0 is
\* Infinity for a > 0, -Infinity for a < 0 and NaN for a = 0.  (With whole
\* a, b up to 150000 the double a / b lies on the same side of the double c
\* as the exact quotient does of the decimal c.)
DivGt(a, b, c) ==
    /\ ~isNaN(a)
    /\ ~isNaN(b)
    /\ IF b.m > 0 THEN Gt(a, Times(c, b))
       ELSE IF b.m < 0 THEN Lt(a, Times(c, b))
       ELSE a.m > 0

DivLt(a, b, c) ==
    /\ ~isNaN(a)
    /\ ~isNaN(b)
    /\ IF b.m > 0 THEN Lt(a, Times(c, b))
       ELSE IF b.m < 0 THEN Gt(a, Times(c, b))
       ELSE a.m < 0

\* Math.abs
Abs(a) == IF isNaN(a) THEN NaN ELSE Num(IF a.m < 0 THEN -a.m ELSE a.m, a.x)

-----------------------------------------------------------------------------
(* Text *)

Digits == <<"0", "1", "2", "3", "4", "5", "6", "7", "8", "9">>

IsDigit(c) == \E i \in 1..10 : Digits[i] = c

DigitVal(c) == (CHOOSE i \in 1..10 : Digits[i] = c) - 1

\* how many digits stand at positions i, i+1, ... of s
RECURSIVE DigitRun(_, _)
DigitRun(s, i) ==
    IF i <= Len(s) /\ IsDigit(s[i]) THEN 1 + DigitRun(s, i + 1) ELSE 0

\* the value of the n digits of s from position i on
RECURSIVE DigitsValue(_, _, _)
DigitsValue(s, i, n) ==
    IF n = 0 THEN 0
    ELSE 10 * DigitsValue(s, i, n - 1) + DigitVal(s[i + n - 1])

\* parseFloat on the texts the form handles: an optional sign, digits, an
\* optional point and digits; the longest such prefix; NaN without any digit.
parseFloat(s) ==
    LET signed == Len(s) > 0 /\ s[1] \in {"-", "+"}
        start  == IF signed THEN 2 ELSE 1
        ni     == DigitRun(s, start)
        dot    == start + ni <= Len(s) /\ s[start + ni] = "."
        nf     == IF dot THEN DigitRun(s, start + ni + 1) ELSE 0
        mag    == DigitsValue(s, start, ni) * Pow10(nf)
                  + DigitsValue(s, start + ni + 1, nf)
    IN  IF ni + nf = 0 THEN NaN
        ELSE Num(IF signed /\ s[1] = "-" THEN -mag ELSE mag, -nf)

RECURSIVE ToDigits(_)
ToDigits(n) ==
    IF n < 10 THEN <<Digits[n + 1]>>
    ELSE Append(ToDigits(n \div 10), Digits[(n % 10) + 1])

RECURSIVE Zeros(_)
Zeros(k) == IF k <= 0 THEN <<>> ELSE <<"0">> \o Zeros(k - 1)

\* String(n), which parseFloat applies to an argument that is a number
NumberToString(n) ==
    IF isNaN(n) THEN <<"N", "a", "N">>
    ELSE LET mag   == IF n.m < 0 THEN -n.m ELSE n.m
             sign  == IF n.m < 0 THEN <<"-">> ELSE <<>>
             scale == Pow10(-n.x)
             frac  == ToDigits(mag % scale)
         IN  IF n.x >= 0
             THEN sign \o (IF mag = 0 THEN <<"0">> ELSE ToDigits(mag) \o Zeros(n.x))
             ELSE sign \o ToDigits(mag \div scale) \o <<".">>
                       \o Zeros(-n.x - Len(frac)) \o frac

\* the groups of two that en-IN puts before the last three digits
RECURSIVE GroupTwos(_)
GroupTwos(d) ==
    IF Len(d) <= 2 THEN d
    ELSE GroupTwos(SubSeq(d, 1, Len(d) - 2)) \o <<",">> \o SubSeq(d, Len(d) - 1, Len(d))

GroupIndian(d) ==
    IF Len(d) <= 3 THEN d
    ELSE GroupTwos(SubSeq(d, 1, Len(d) - 3)) \o <<",">> \o SubSeq(d, Len(d) - 2, Len(d))

\* k / 10^d rounded to a whole number, halves away from zero (Intl's default)
RoundHalfExpand(k, d) == (2 * k + Pow10(d)) \div (2 * Pow10(d))

\* the digits of |num| rounded to a whole number
WholeDigits(num) ==
    LET mag == IF num.m < 0 THEN -num.m ELSE num.m
    IN  IF num.x >= 0 THEN (IF mag = 0 THEN <<"0">> ELSE ToDigits(mag) \o Zeros(num.x))
        ELSE ToDigits(RoundHalfExpand(mag, -num.x))

\* new Intl.NumberFormat('en-IN', {maximumFractionDigits: 0}).format(num)
IntlFormat(num) ==
    IF num.m < 0 THEN <<"-">> \o GroupIndian(WholeDigits(num))
    ELSE GroupIndian(WholeDigits(num))

\* Faulty variant: the text is stored as typed, neither rounded nor grouped
formatIndianRupeeAsTyped(value) == value

formatIndianRupee(value) ==
    IF value = <<>> THEN <<>>
    ELSE LET num == parseFloat(value)
         IN  IF isNaN(num) THEN value ELSE IntlFormat(num)

\* Faulty variant: value.replace(',', ''), which strips the first separator only
RECURSIVE DropFirstComma(_)
DropFirstComma(value) ==
    IF value = <<>> THEN <<>>
    ELSE IF Head(value) = "," THEN Tail(value)
    ELSE <<Head(value)>> \o DropFirstComma(Tail(value))

parseIndianNumberFirstOnly(value) == DropFirstComma(value)

\* value.replace(/,/g, '')
parseIndianNumber(value) == SelectSeq(value, LAMBDA c : c # ",")


-----------------------------------------------------------------------------
(* The form: fields, messages, derived totals *)

numericFields ==
    <<"monthly_income", "monthly_expenses", "loan_emi", "savings", "investments">>

Fields == {numericFields[i] : i \in 1..Len(numericFields)}

ErrRequired == "This field is required"
ErrInvalid == "Please enter a valid number"
ErrNegative == "Value cannot be negative"
ErrZeroIncome == "Income cannot be zero"
ErrLimit == "Value exceeds reasonable limit"
\* the two ceiling messages, without their rupee sign
ErrIncomeCeiling == "Monthly income cannot exceed 150,000"
ErrExpensesCeiling == "Monthly expenses cannot exceed 150,000"
ErrSumIncome ==
    "Income must equal the sum of Expenses, Loan EMI, Savings, and Investments"
ErrSumOther == "Total must match monthly income"

Ceiling == 150000
SanityLimit == Num(1, 10)    \* 10000000000
Tolerance == 1

EmptyText == <<>>
NoErrors == [f \in {} |-> ""]

\* errors[f] as a condition: the key is there and its message is not ''
HasError(errs, f) == f \in DOMAIN errs /\ errs[f] # ""

\* {...prev, [f]: msg}
WithError(errs, f, msg) ==
    [g \in (DOMAIN errs) \cup {f} |-> IF g = f THEN msg ELSE errs[g]]

\* value || '0'
OrZero(value) == IF value = EmptyText THEN <<"0">> ELSE value

FieldNumber(fd, f) == parseFloat(parseIndianNumber(OrZero(fd[f])))

calculateTotalExpenses(fd) ==
    Plus(Plus(Plus(FieldNumber(fd, "monthly_expenses"), FieldNumber(fd, "loan_emi")),
              FieldNumber(fd, "savings")),
         FieldNumber(fd, "investments"))

calculateBalance(fd) ==
    Minus(FieldNumber(fd, "monthly_income"), calculateTotalExpenses(fd))

-----------------------------------------------------------------------------
(* validateForm *)

\* Faulty variant: the zero check applied to every field
FieldCheckZeroAll(fd, field) ==
    LET rawValue == parseIndianNumber(fd[field])
        numValue == parseFloat(rawValue)
    IN  IF rawValue = EmptyText THEN <<ErrRequired>>
        ELSE IF isNaN(numValue) THEN <<ErrInvalid>>
        ELSE IF Lt(numValue, IntNum(0)) THEN <<ErrNegative>>
        ELSE IF numValue = IntNum(0) THEN <<ErrZeroIncome>>
        ELSE IF Gt(numValue, SanityLimit) THEN <<ErrLimit>>
        ELSE IF field = "monthly_income" /\ Gt(numValue, IntNum(Ceiling))
             THEN <<ErrIncomeCeiling>>
        ELSE IF field = "monthly_expenses" /\ Gt(numValue, IntNum(Ceiling))
             THEN <<ErrExpensesCeiling>>
        ELSE <<>>

\* Faulty variant: the zero check left out
FieldCheckNoZero(fd, field) ==
    LET rawValue == parseIndianNumber(fd[field])
        numValue == parseFloat(rawValue)
    IN  IF rawValue = EmptyText THEN <<ErrRequired>>
        ELSE IF isNaN(numValue) THEN <<ErrInvalid>>
        ELSE IF Lt(numValue, IntNum(0)) THEN <<ErrNegative>>
        ELSE IF Gt(numValue, SanityLimit) THEN <<ErrLimit>>
        ELSE IF field = "monthly_income" /\ Gt(numValue, IntNum(Ceiling))
             THEN <<ErrIncomeCeiling>>
        ELSE IF field = "monthly_expenses" /\ Gt(numValue, IntNum(Ceiling))
             THEN <<ErrExpensesCeiling>>
        ELSE <<>>

\* the checks of one field, in the order of the code; <<>> when all pass
FieldCheck(fd, field) ==
    LET rawValue == parseIndianNumber(fd[field])
        numValue == parseFloat(rawValue)
    IN  IF rawValue = EmptyText THEN <<ErrRequired>>
        ELSE IF isNaN(numValue) THEN <<ErrInvalid>>
        ELSE IF Lt(numValue, IntNum(0)) THEN <<ErrNegative>>
        ELSE IF field = "monthly_income" /\ numValue = IntNum(0) THEN <<ErrZeroIncome>>
        ELSE IF Gt(numValue, SanityLimit) THEN <<ErrLimit>>
        ELSE IF field = "monthly_income" /\ Gt(numValue, IntNum(Ceiling))
             THEN <<ErrIncomeCeiling>>
        ELSE IF field = "monthly_expenses" /\ Gt(numValue, IntNum(Ceiling))
             THEN <<ErrExpensesCeiling>>
        ELSE <<>>

\* newErrors after the forEach
PerFieldErrors(fd) ==
    [f \in {g \in Fields : FieldCheck(fd, g) # <<>>} |-> FieldCheck(fd, f)[1]]

\* Faulty variant: no rounding tolerance, Math.abs(balance) > 0
SumMismatchStrict(fd) ==
    /\ Gt(FieldNumber(fd, "monthly_income"), IntNum(0))
    /\ Gt(calculateTotalExpenses(fd), IntNum(0))
    /\ Gt(Abs(calculateBalance(fd)), IntNum(0))

\* the condition of the cross-field check
SumMismatch(fd) ==
    /\ Gt(FieldNumber(fd, "monthly_income"), IntNum(0))
    /\ Gt(calculateTotalExpenses(fd), IntNum(0))
    /\ Gt(Abs(calculateBalance(fd)), IntNum(Tolerance))

\* Faulty variant: the mismatch is flagged on the income field only
validateFormErrorsIncomeOnly(fd) ==
    IF SumMismatch(fd)
    THEN WithError(PerFieldErrors(fd), "monthly_income", ErrSumIncome)
    ELSE PerFieldErrors(fd)

\* newErrors as handed to setErrors
validateFormErrors(fd) ==
    IF SumMismatch(fd)
    THEN [f \in Fields |-> IF f = "monthly_income" THEN ErrSumIncome ELSE ErrSumOther]
    ELSE PerFieldErrors(fd)

\* Object.keys(newErrors).length === 0
validateFormPasses(fd) == DOMAIN validateFormErrors(fd) = {}

-----------------------------------------------------------------------------
(* handleChange *)

AllowedChars == {Digits[i] : i \in 1..10} \cup {".", ","}

\* value.replace(/[^0-9.,]/g, '')
Sanitize(value) == SelectSeq(value, LAMBDA c : c \in AllowedChars)

DecimalCount(value) == Len(SelectSeq(value, LAMBDA c : c = "."))

\* finalValue before formatting: the last character goes when there are two points
GuardDecimals(value) ==
    LET sanitizedValue == Sanitize(value)
    IN  IF DecimalCount(sanitizedValue) > 1
        THEN SubSeq(sanitizedValue, 1, Len(sanitizedValue) - 1)
        ELSE sanitizedValue

RawValue(value) == parseIndianNumber(GuardDecimals(value))

\* rawValue && !isNaN(parseFloat(rawValue))
Parseable(rawValue) == rawValue # EmptyText /\ ~isNaN(parseFloat(rawValue))

BoundedFields == {"monthly_income", "monthly_expenses"}

CeilingError(name) ==
    IF name = "monthly_income" THEN ErrIncomeCeiling ELSE ErrExpensesCeiling

\* Faulty variant: the real-time check made for the income field only
ExceedsCeilingIncomeOnly(name, value) ==
    /\ name = "monthly_income"
    /\ Parseable(RawValue(value))
    /\ Gt(parseFloat(RawValue(value)), IntNum(Ceiling))

\* the real-time check rejects the keystroke
ExceedsCeiling(name, value) ==
    /\ name \in BoundedFields
    /\ Parseable(RawValue(value))
    /\ Gt(parseFloat(RawValue(value)), IntNum(Ceiling))

\* the text handleChange stores for an accepted keystroke
StoredText(value) ==
    IF Parseable(RawValue(value)) THEN formatIndianRupee(RawValue(value))
    ELSE GuardDecimals(value)

\* Faulty variant: an accepted keystroke clears the field's error whatever
\* the new value is
ClearedErrorsAlways(errs, name, parseable) ==
    IF HasError(errs, name) THEN WithError(errs, name, "") ELSE errs

\* the error map after an accepted keystroke; parseable is
\* rawValue && !isNaN(parseFloat(rawValue))
ClearedErrors(errs, name, parseable) ==
    IF HasError(errs, name) /\ (name \in BoundedFields => parseable)
    THEN WithError(errs, name, "")
    ELSE errs

-----------------------------------------------------------------------------
(* The submit control and the request *)

\* Faulty variant: the submit control does not look at the loading flag
SubmitDisabledIgnoresLoading ==
    \/ /\ Gt(FieldNumber(formData, "monthly_income"), IntNum(0))
       /\ calculateBalance(formData) # IntNum(0)
    \/ HasError(errors, "monthly_income")
    \/ HasError(errors, "monthly_expenses")

\* Faulty variant: the submit control does not look at the balance
SubmitDisabledIgnoresBalance ==
    \/ isLoading
    \/ HasError(errors, "monthly_income")
    \/ HasError(errors, "monthly_expenses")

\* disabled={isLoading || (income > 0 && balance !== 0) || errors.monthly_income
\*           || errors.monthly_expenses}
SubmitDisabled ==
    \/ isLoading
    \/ /\ Gt(FieldNumber(formData, "monthly_income"), IntNum(0))
       /\ calculateBalance(formData) # IntNum(0)
    \/ HasError(errors, "monthly_income")
    \/ HasError(errors, "monthly_expenses")

numericData(fd) == [f \in Fields |-> parseFloat(parseIndianNumber(fd[f]))]

-----------------------------------------------------------------------------
(* Inputs: the texts a change event carries, the scorer's answers *)

\* typed or pasted into a plain field: cleared, zero, a whole number
PlainTexts ==
    { <<>>,
      <<"0">>,
      <<"1">> }

\* and, into a field with the ceiling: a lone point, a fraction, the ceiling
\* itself and the value just above it
InputTexts(name) ==
    IF name \in BoundedFields
    THEN PlainTexts \cup { <<".">>,
                           <<"0", ".", "5">>,
                           <<"1", "5", "0", "0", "0", "0">>,
                           <<"1", "5", "0", "0", "0", "1">> }
    ELSE PlainTexts

\* pasted in one piece into a field with the ceiling: two points before the
\* digits, a number with a minus sign
PastedTexts(name) ==
    IF name \in BoundedFields
    THEN { <<".", ".", "5", "5">>,
           <<"-", "1">> }
    ELSE {}

Predictions ==
    { [financial_score |-> 72, risk_category |-> "Moderate"] }

NoState == [none |-> TRUE]

-----------------------------------------------------------------------------
(* State after construction *)

EmptyForm == [f \in Fields |-> EmptyText]

Init ==
    /\ formData = EmptyForm
    /\ errors = NoErrors
    /\ isLoading = FALSE
    /\ pc = "idle"
    /\ valid = "unset"
    /\ requests = <<>>
    /\ view = "form"
    /\ navState = NoState
    /\ dash = "none"
    /\ historyRequests = 0
    /\ history = <<>>
    /\ recommendations = <<>>

\* the page loaded at /dashboard: location.state is null
InitDashboard ==
    /\ formData = EmptyForm
    /\ errors = NoErrors
    /\ isLoading = FALSE
    /\ pc = "idle"
    /\ valid = "unset"
    /\ requests = <<>>
    /\ view = "dashboard"
    /\ navState = NoState
    /\ dash = "mounted"
    /\ historyRequests = 0
    /\ history = <<>>
    /\ recommendations = <<>>

\* no continuation of handleSubmit is running: the next event can be handled
Quiet == pc = "idle"

Without(seq, i) == SubSeq(seq, 1, i - 1) \o SubSeq(seq, i + 1, Len(seq))

-----------------------------------------------------------------------------
(* Handlers *)

ChangeEvents ==
    UNION {{<<name, value>> : value \in InputTexts(name) \cup PastedTexts(name)} :
              name \in Fields}

\* what handleChange computes from the event alone, tabulated once per event
ChangeFacts ==
    [e \in ChangeEvents |->
        [exceeds   |-> ExceedsCeiling(e[1], e[2]),
         parseable |-> Parseable(RawValue(e[2])),
         stored    |-> StoredText(e[2])]]

handleChange(name, value) ==
    /\ view = "form"
    /\ Quiet
    /\ LET facts == ChangeFacts[<<name, value>>]
       IN  IF facts.exceeds
           THEN /\ errors' = WithError(errors, name, CeilingError(name))
                /\ formData' = formData
           ELSE /\ errors' = ClearedErrors(errors, name, facts.parseable)
                /\ formData' = [formData EXCEPT ![name] = facts.stored]
    /\ valid' = "unset"
    /\ UNCHANGED <<isLoading, pc, requests, view, navState>>
    /\ UNCHANGED resultsVars

\* the Clear All button: disabled={isLoading}
resetForm ==
    /\ view = "form"
    /\ Quiet
    /\ ~isLoading
    /\ formData' = EmptyForm
    /\ errors' = NoErrors
    /\ valid' = "unset"
    /\ UNCHANGED <<isLoading, pc, requests, view, navState>>
    /\ UNCHANGED resultsVars

\* Faulty variant: setIsLoading(true) moved above the validation guard
SubmitBodyLoadingFirst ==
    /\ errors' = validateFormErrors(formData)
    /\ isLoading' = TRUE
    /\ IF validateFormPasses(formData)
       THEN /\ valid' = "pass"
            /\ requests' = Append(requests, [body |-> numericData(formData), at |-> "fetch"])
       ELSE /\ valid' = "fail"
            /\ UNCHANGED requests
    /\ UNCHANGED <<formData, pc, view, navState>>
    /\ UNCHANGED resultsVars

\* handleSubmit up to its first await
SubmitBody ==
    /\ errors' = validateFormErrors(formData)
    /\ IF validateFormPasses(formData)
       THEN /\ valid' = "pass"
            /\ isLoading' = TRUE
            /\ requests' = Append(requests, [body |-> numericData(formData), at |-> "fetch"])
       ELSE /\ valid' = "fail"
            /\ UNCHANGED <<isLoading, requests>>
    /\ UNCHANGED <<formData, pc, view, navState>>
    /\ UNCHANGED resultsVars

\* the form's submit event, which the submit control lets through
handleSubmit ==
    /\ view = "form"
    /\ Quiet
    /\ ~SubmitDisabled
    /\ SubmitBody

\* Faulty variant: the failure path clears the form as the success path does
fetchFailsResets(i) ==
    /\ Quiet
    /\ i \in 1..Len(requests)
    /\ requests[i].at = "fetch"
    /\ requests' = Without(requests, i)
    /\ pc' = "alert"
    /\ formData' = EmptyForm
    /\ errors' = NoErrors
    /\ valid' = "unset"
    /\ UNCHANGED <<isLoading, view, navState>>
    /\ UNCHANGED resultsVars

\* catch: alert(...), which blocks until it is dismissed
fetchFails(i) ==
    /\ Quiet
    /\ i \in 1..Len(requests)
    /\ requests[i].at = "fetch"
    /\ requests' = Without(requests, i)
    /\ pc' = "alert"
    /\ valid' = "unset"
    /\ UNCHANGED <<formData, errors, isLoading, view, navState>>
    /\ UNCHANGED resultsVars

\* fetch resolves: response.ok decides
fetchResolves(i, ok) ==
    /\ Quiet
    /\ i \in 1..Len(requests)
    /\ requests[i].at = "fetch"
    /\ IF ok
       THEN /\ requests' = [requests EXCEPT ![i].at = "json"]
            /\ pc' = pc
       ELSE /\ requests' = Without(requests, i)
            /\ pc' = "alert"
    /\ valid' = "unset"
    /\ UNCHANGED <<formData, errors, isLoading, view, navState>>
    /\ UNCHANGED resultsVars

-----------------------------------------------------------------------------
(* The results view *)

\* !prediction is false: location.state carries a prediction
HasPrediction == "prediction" \in DOMAIN navState

RecExpenses ==
    "Optimize expenses by 10-15% to enhance financial stability and improve your health score."
RecDebt ==
    "Explore debt consolidation strategies to reduce high-interest loan burden and improve cash flow."
RecSavings ==
    "Target a minimum 20% savings rate from income to build stronger financial security."
RecInvest ==
    "Consider strategic allocation of savings into investments for better wealth generation."
RecExcellent ==
    "Excellent financial discipline maintained. Continue current strategies for sustained growth."

\* Faulty variant: the expense rule fires from 0.6 on, expenseRatio >= 0.6
expensesRuleAtLeast(fd) ==
    ~DivLt(parseFloat(NumberToString(fd["monthly_expenses"])),
           parseFloat(NumberToString(fd["monthly_income"])), Num(6, -1))

\* the four rules, on the record the navigation payload carries
expensesRule(fd) ==
    DivGt(parseFloat(NumberToString(fd["monthly_expenses"])),
          parseFloat(NumberToString(fd["monthly_income"])), Num(6, -1))

debtRule(fd) ==
    DivGt(parseFloat(NumberToString(fd["loan_emi"])),
          parseFloat(NumberToString(fd["monthly_income"])), Num(3, -1))

savingsRule(fd) ==
    DivLt(Plus(parseFloat(NumberToString(fd["savings"])),
               parseFloat(NumberToString(fd["investments"]))),
          parseFloat(NumberToString(fd["monthly_income"])), Num(2, -1))

investRule(fd) ==
    Lt(parseFloat(NumberToString(fd["investments"])),
       Times(parseFloat(NumberToString(fd["savings"])), Num(5, -1)))

\* recommendations before the slice
AllRecommendations(fd) ==
    LET fired == (IF expensesRule(fd) THEN <<RecExpenses>> ELSE <<>>)
                 \o (IF debtRule(fd) THEN <<RecDebt>> ELSE <<>>)
                 \o (IF savingsRule(fd) THEN <<RecSavings>> ELSE <<>>)
                 \o (IF investRule(fd) THEN <<RecInvest>> ELSE <<>>)
    IN  IF Len(fired) = 0 THEN <<RecExcellent>> ELSE fired

\* recommendations.slice(0, 3)
generateRecommendations(fd) ==
    SubSeq(AllRecommendations(fd), 1, MinOf(3, Len(AllRecommendations(fd))))

\* what GET /history answers: an array of records, here their numbers
HistoryAnswers ==
    { <<>>,
      <<1, 2, 3, 4, 5, 6>> }

\* the route /dashboard starts a results view: useState([]), nothing rendered yet
MountResults ==
    /\ dash' = "mounted"
    /\ historyRequests' = 0
    /\ history' = <<>>
    /\ recommendations' = <<>>

\* Faulty variant: navigate() is handed the fields as they are when the
\* response arrives, not the record that was sent
jsonResolvesCurrentFields(i, result) ==
    /\ Quiet
    /\ i \in 1..Len(requests)
    /\ requests[i].at = "json"
    /\ view' = "dashboard"
    /\ navState' = [prediction |-> result, formData |-> numericData(formData)]
    /\ requests' = Without(requests, i)
    /\ pc' = "navigated"
    /\ valid' = "unset"
    /\ MountResults
    /\ UNCHANGED <<formData, errors, isLoading>>

\* response.json() resolves: navigate('/dashboard', {state: ...})
jsonResolves(i, result) ==
    /\ Quiet
    /\ i \in 1..Len(requests)
    /\ requests[i].at = "json"
    /\ view' = "dashboard"
    /\ navState' = [prediction |-> result, formData |-> requests[i].body]
    /\ requests' = Without(requests, i)
    /\ pc' = "navigated"
    /\ valid' = "unset"
    /\ MountResults
    /\ UNCHANGED <<formData, errors, isLoading>>

\* response.json() rejects
jsonFails(i) ==
    /\ Quiet
    /\ i \in 1..Len(requests)
    /\ requests[i].at = "json"
    /\ requests' = Without(requests, i)
    /\ pc' = "alert"
    /\ valid' = "unset"
    /\ UNCHANGED <<formData, errors, isLoading, view, navState>>
    /\ UNCHANGED resultsVars

\* Faulty variant: the reset after navigation forgets setErrors({})
resetKeepsErrors ==
    /\ pc = "navigated"
    /\ formData' = EmptyForm
    /\ errors' = errors
    /\ pc' = "finally"
    /\ valid' = "unset"
    /\ UNCHANGED <<isLoading, requests, view, navState>>
    /\ UNCHANGED resultsVars

\* resetForm() after navigate()
resetAfterNavigate ==
    /\ pc = "navigated"
    /\ formData' = EmptyForm
    /\ errors' = NoErrors
    /\ pc' = "finally"
    /\ valid' = "unset"
    /\ UNCHANGED <<isLoading, requests, view, navState>>
    /\ UNCHANGED resultsVars

dismissAlert ==
    /\ pc = "alert"
    /\ pc' = "finally"
    /\ valid' = "unset"
    /\ UNCHANGED <<formData, errors, isLoading, requests, view, navState>>
    /\ UNCHANGED resultsVars

\* finally: setIsLoading(false)
finallyStep ==
    /\ pc = "finally"
    /\ isLoading' = FALSE
    /\ pc' = "idle"
    /\ valid' = "unset"
    /\ UNCHANGED <<formData, errors, requests, view, navState>>
    /\ UNCHANGED resultsVars

\* navigate('/') from the results view: it unmounts, the form mounts anew.
\* A history response that arrives later finds no view to update, so the
\* request is no longer counted.
LeaveResults ==
    /\ formData' = EmptyForm
    /\ errors' = NoErrors
    /\ isLoading' = FALSE
    /\ valid' = "unset"
    /\ view' = "form"
    /\ navState' = NoState
    /\ dash' = "none"
    /\ historyRequests' = 0
    /\ history' = <<>>
    /\ recommendations' = <<>>
    /\ UNCHANGED <<pc, requests>>

\* the results view's way back, the button it renders once it has a prediction
openForm ==
    /\ view = "dashboard"
    /\ Quiet
    /\ requests = <<>>
    /\ dash = "effected"
    /\ LeaveResults

\* the first render with a prediction: the recommendations are computed
renderDashboard ==
    /\ view = "dashboard"
    /\ Quiet
    /\ dash = "mounted"
    /\ HasPrediction
    /\ recommendations' = generateRecommendations(navState.formData)
    /\ dash' = "rendered"
    /\ valid' = "unset"
    /\ UNCHANGED <<formData, errors, isLoading, pc, requests, view, navState,
                   historyRequests, history>>

\* the first render without a prediction: navigate('/') and return null.
\* The router either ignores a navigate() made during the first render, and
\* the effect is still to come, or follows it at once.
renderWithoutPrediction ==
    /\ view = "dashboard"
    /\ Quiet
    /\ dash = "mounted"
    /\ ~HasPrediction
    /\ \/ /\ dash' = "rendered"
          /\ valid' = "unset"
          /\ UNCHANGED <<formData, errors, isLoading, pc, requests, view, navState,
                         historyRequests, history, recommendations>>
       \/ LeaveResults

\* useEffect without a prediction: navigate('/') and return
redirectToForm ==
    /\ view = "dashboard"
    /\ Quiet
    /\ dash = "rendered"
    /\ ~HasPrediction
    /\ LeaveResults

\* Faulty variant: the effect starts the history request before it looks at
\* the prediction
fetchHistoryUnguarded ==
    /\ view = "dashboard"
    /\ Quiet
    /\ dash = "rendered"
    /\ historyRequests' = historyRequests + 1
    /\ dash' = "effected"
    /\ valid' = "unset"
    /\ UNCHANGED <<formData, errors, isLoading, pc, requests, view, navState,
                   history, recommendations>>

\* useEffect with a prediction: fetchHistory() up to its await
fetchHistory ==
    /\ view = "dashboard"
    /\ Quiet
    /\ dash = "rendered"
    /\ HasPrediction
    /\ historyRequests' = historyRequests + 1
    /\ dash' = "effected"
    /\ valid' = "unset"
    /\ UNCHANGED <<formData, errors, isLoading, pc, requests, view, navState,
                   history, recommendations>>

\* the history response: with response.ok, setHistory(data.slice(0, 5))
historyResolves(ok, data) ==
    /\ view = "dashboard"
    /\ Quiet
    /\ historyRequests > 0
    /\ historyRequests' = historyRequests - 1
    /\ history' = IF ok THEN SubSeq(data, 1, MinOf(5, Len(data))) ELSE history
    /\ valid' = "unset"
    /\ UNCHANGED <<formData, errors, isLoading, pc, requests, view, navState,
                   dash, recommendations>>

\* fetch or response.json() rejects: catch, console.error
historyFails ==
    /\ view = "dashboard"
    /\ Quiet
    /\ historyRequests > 0
    /\ historyRequests' = historyRequests - 1
    /\ valid' = "unset"
    /\ UNCHANGED <<formData, errors, isLoading, pc, requests, view, navState,
                   dash, history, recommendations>>

Next ==
    \/ \E name \in Fields : \E value \in InputTexts(name) : handleChange(name, value)
    \/ resetForm
    \/ handleSubmit
    \/ \E i \in 1..Len(requests) : fetchFails(i)
    \/ \E i \in 1..Len(requests), ok \in BOOLEAN : fetchResolves(i, ok)
    \/ \E i \in 1..Len(requests), result \in Predictions : jsonResolves(i, result)
    \/ \E i \in 1..Len(requests) : jsonFails(i)
    \/ resetAfterNavigate
    \/ dismissAlert
    \/ finallyStep
    \/ openForm
    \/ renderDashboard
    \/ renderWithoutPrediction
    \/ redirectToForm
    \/ fetchHistory
    \/ \E ok \in BOOLEAN, data \in HistoryAnswers : historyResolves(ok, data)
    \/ historyFails

\* the page is loaded at one of the two routes: "/" shows the entry form,
\* "/dashboard" the results view, with no navigation payload
InitApp == Init \/ InitDashboard

Spec == InitApp /\ [][Next]_vars

-----------------------------------------------------------------------------
(* The full validation pass on its own: validateForm() applied to every     *)
(* field set that change events can have stored                            *)

ValidateInputs ==
    PlainTexts \cup { <<"2">>,
                      <<".">>,
                      <<"0", ".", "5">>,
                      <<"1", "5", "0", "0", "0", "0">>,
                      <<"1", "5", "0", "0", "0", "1">> }

\* what handleChange can have left in field name
StoredTexts(name) ==
    {StoredText(t) : t \in {u \in ValidateInputs : ~ExceedsCeiling(name, u)}}

InitValidate ==
    /\ LET stored == [f \in Fields |-> StoredTexts(f)]
       IN  formData \in {fd \in [Fields -> UNION {stored[f] : f \in Fields}] :
                            \A f \in Fields : fd[f] \in stored[f]}
    /\ errors = NoErrors
    /\ isLoading = FALSE
    /\ pc = "idle"
    /\ valid = "unset"
    /\ requests = <<>>
    /\ view = "form"
    /\ navState = NoState
    /\ dash = "none"
    /\ historyRequests = 0
    /\ history = <<>>
    /\ recommendations = <<>>

validateForm ==
    /\ valid = "unset"
    /\ errors' = validateFormErrors(formData)
    /\ valid' = IF validateFormPasses(formData) THEN "pass" ELSE "fail"
    /\ UNCHANGED <<formData, isLoading, pc, requests, view, navState>>
    /\ UNCHANGED resultsVars

NextValidate == validateForm

SpecValidate == InitValidate /\ [][NextValidate]_vars

-----------------------------------------------------------------------------
(* Editing on its own: change events, typed or pasted, and Clear All on a   *)
(* form that is never submitted                                            *)

NextChange ==
    \/ \E name \in Fields : \E value \in InputTexts(name) \cup PastedTexts(name) :
          handleChange(name, value)
    \/ resetForm

SpecChange == Init /\ [][NextChange]_vars

-----------------------------------------------------------------------------
(* The recommendations on their own: the results view rendered over the     *)
(* records that a balanced submission can carry                            *)

\* shares of an income of 100, on and next to the thresholds of the rules
RecommendShares == {0, 8, 10, 20, 30, 31, 40, 60, 61}

\* five whole numbers: an income of 100 and four shares that sum to it
RecommendBodies ==
    {[monthly_income |-> IntNum(t[1] + t[2] + t[3] + t[4]),
      monthly_expenses |-> IntNum(t[1]), loan_emi |-> IntNum(t[2]),
      savings |-> IntNum(t[3]), investments |-> IntNum(t[4])] :
        t \in {u \in RecommendShares \X RecommendShares \X RecommendShares
                      \X RecommendShares : u[1] + u[2] + u[3] + u[4] = 100}}

InitRecommend ==
    /\ formData = EmptyForm
    /\ errors = NoErrors
    /\ isLoading = FALSE
    /\ pc = "idle"
    /\ valid = "unset"
    /\ requests = <<>>
    /\ view = "dashboard"
    /\ navState \in {[prediction |-> p, formData |-> b] :
                        p \in Predictions, b \in RecommendBodies}
    /\ dash = "mounted"
    /\ historyRequests = 0
    /\ history = <<>>
    /\ recommendations = <<>>

NextRecommend == renderDashboard

SpecRecommend == InitRecommend /\ [][NextRecommend]_vars

-----------------------------------------------------------------------------
(* Properties *)

Income == FieldNumber(formData, "monthly_income")
TotalAllocation == calculateTotalExpenses(formData)
Balance == calculateBalance(formData)

\* |income - total allocation| <= 1
WithinOne == ~isNaN(Balance) /\ ~Gt(Abs(Balance), IntNum(1))

\* the text of a field without its separators parses to zero
IsZero(f) ==
    /\ parseIndianNumber(formData[f]) # EmptyText
    /\ parseFloat(parseIndianNumber(formData[f])) = IntNum(0)

IsSumError(msg) == msg \in {ErrSumIncome, ErrSumOther}

\* C1 (SpecValidate): when all five fields pass their own checks, income > 0
\* and total allocation > 0, validateForm returns pass if and only if
\* |income - (expenses + loan_emi + savings + investments)| <= 1.
C1_PassIffWithinOne ==
    ( /\ valid # "unset"
      /\ PerFieldErrors(formData) = NoErrors
      /\ Gt(Income, IntNum(0))
      /\ Gt(TotalAllocation, IntNum(0)) )
    => (valid = "pass" <=> WithinOne)

\* the pass ran on a set that is off by exactly one, and passed
C1_Witness ==
    /\ valid = "pass"
    /\ Gt(TotalAllocation, IntNum(0))
    /\ Abs(Balance) = IntNum(1)

\* C3 (SpecValidate), as claimed: a field that is empty when the full pass
\* runs carries the required-field error afterwards, and the pass fails,
\* whatever the other four fields hold.
C3_EmptyIsRequired ==
    valid # "unset"
    => \A f \in Fields :
          parseIndianNumber(formData[f]) = EmptyText
          => /\ valid = "fail"
             /\ f \in DOMAIN errors
             /\ errors[f] = ErrRequired

\* C4 (SpecValidate): after the full pass, a field holding zero carries the
\* zero-income error when it is monthly_income; any other field holding zero
\* carries no error of its own (at most the sum-mismatch error).
C4_ZeroOnlyRejectedForIncome ==
    valid # "unset"
    => \A f \in Fields :
          IsZero(f)
          => IF f = "monthly_income"
             THEN f \in DOMAIN errors /\ errors[f] = ErrZeroIncome
             ELSE f \notin DOMAIN errors \/ IsSumError(errors[f])

\* the pass ran with income and expenses both zero
C4_Witness ==
    /\ valid = "fail"
    /\ IsZero("monthly_income")
    /\ IsZero("monthly_expenses")
    /\ errors["monthly_income"] = ErrZeroIncome
    /\ "monthly_expenses" \notin DOMAIN errors

\* C6 (SpecValidate): when the full pass runs with income > 0, total
\* allocation > 0 and |income - total allocation| > 1, all five fields carry
\* a sum-mismatch error, the pass fails and the submit control is disabled.
C6_MismatchFlagsAllFields ==
    ( /\ valid # "unset"
      /\ Gt(Income, IntNum(0))
      /\ Gt(TotalAllocation, IntNum(0))
      /\ Gt(Abs(Balance), IntNum(1)) )
    => /\ valid = "fail"
       /\ DOMAIN errors = Fields
       /\ errors["monthly_income"] = ErrSumIncome
       /\ \A f \in Fields \ {"monthly_income"} : errors[f] = ErrSumOther
       /\ SubmitDisabled

\* the mismatch was flagged on five fields that each passed their own checks
C6_Witness ==
    /\ valid = "fail"
    /\ PerFieldErrors(formData) = NoErrors
    /\ DOMAIN errors = Fields
    /\ \A f \in Fields : IsSumError(errors[f])

\* what a stored text parses to once its separators are stripped
StoredNumber(text) == parseFloat(parseIndianNumber(text))

\* C2 (Spec): the stored income and expenses never parse above 150,000
C2_StoredWithinCeiling ==
    \A f \in BoundedFields : ~Gt(StoredNumber(formData[f]), IntNum(150000))

\* the raw numeric value of each change event: what its text parses to once
\* filtered and stripped of separators (NaN when it is no numeric string)
RawNumberOf == [e \in ChangeEvents |-> parseFloat(RawValue(e[2]))]

\* the change events on a field with the ceiling whose raw numeric value
\* exceeds 150,000
C2_EventsAboveCeiling ==
    {e \in ChangeEvents :
        e[1] \in BoundedFields /\ Gt(RawNumberOf[e], IntNum(150000))}

\* C2 (Spec): the stored monthly_income and monthly_expenses never parse to
\* a number above 150,000, and a change event on either field whose raw
\* numeric value exceeds 150,000 leaves that field's stored text as it was
\* and sets that field's ceiling error.
C2_CeilingFreezesField ==
    /\ []C2_StoredWithinCeiling
    /\ [][\A e \in C2_EventsAboveCeiling :
            handleChange(e[1], e[2])
            => /\ formData'[e[1]] = formData[e[1]]
               /\ e[1] \in DOMAIN errors'
               /\ errors'[e[1]] = CeilingError(e[1])]_vars

\* income stands at the ceiling and a further keystroke was turned down
C2_Witness ==
    /\ formData["monthly_income"] = <<"1", ",", "5", "0", ",", "0", "0", "0">>
    /\ "monthly_income" \in DOMAIN errors
    /\ errors["monthly_income"] = ErrIncomeCeiling

\* the change events whose raw text is a numeric string (all are below the
\* sanity ceiling) and which the ceiling does not turn down: the text is
\* formatted and stored
C5_FormattedEvents ==
    {e \in ChangeEvents \ C2_EventsAboveCeiling : ~isNaN(RawNumberOf[e])}

\* C5 (SpecChange), as claimed: formatting a raw numeric string below the sanity
\* ceiling and stripping the separators again gives a text that parses to
\* exactly the original value, fractional values included.
C5_RoundTripExact ==
    [][\A e \in C5_FormattedEvents :
          handleChange(e[1], e[2])
          => StoredNumber(formData'[e[1]]) = RawNumberOf[e]]_vars

\* C5 (SpecChange), amended: the text parses to the original value rounded to the
\* nearest whole number, a half going away from zero; so a whole value comes
\* back exactly and a fractional one loses its fraction.
C5_RoundTripRounds ==
    [][\A e \in C5_FormattedEvents :
          handleChange(e[1], e[2])
          => LET back == StoredNumber(formData'[e[1]])
                 off  == Abs(Minus(back, RawNumberOf[e]))
             IN  /\ ~isNaN(back)
                 /\ back.x >= 0
                 /\ ~Gt(off, Num(5, -1))
                 /\ off = Num(5, -1) => Gt(back, RawNumberOf[e])]_vars

\* a value was stored with its grouping separators
C5_Witness ==
    \E f \in Fields :
        /\ DecimalCount(formData[f]) = 0
        /\ Len(formData[f]) > Len(parseIndianNumber(formData[f])) + 1
        /\ StoredNumber(formData[f]) = IntNum(150000)

\* C7 (Spec): a submit whose validation pass fails changes the error map and
\* nothing else: no request is issued, no navigation happens, the five field
\* values stay and the loading flag stays false.
C7_FailedSubmitOnlySetsErrors ==
    [][valid' = "fail"
        => /\ requests' = requests
           /\ view' = view
           /\ navState' = navState
           /\ formData' = formData
           /\ isLoading = FALSE
           /\ isLoading' = FALSE
           /\ pc' = pc]_vars

\* a submit has just failed its validation
C7_Witness ==
    /\ valid = "fail"
    /\ errors # NoErrors
    /\ requests = <<>>
    /\ ~isLoading
    /\ view = "form"

\* the body of a request: five finite non-negative numbers, income in
\* (0, 150000], expenses at most 150000, off the allocation by at most 1
C8_BodyValid(b) ==
    /\ \A f \in Fields : ~isNaN(b[f]) /\ ~Lt(b[f], IntNum(0))
    /\ Gt(b["monthly_income"], IntNum(0))
    /\ ~Gt(b["monthly_income"], IntNum(150000))
    /\ ~Gt(b["monthly_expenses"], IntNum(150000))
    /\ ~Gt(Abs(Minus(b["monthly_income"],
                     Plus(Plus(Plus(b["monthly_expenses"], b["loan_emi"]),
                               b["savings"]),
                          b["investments"]))),
           IntNum(1))

\* C8 (Spec): a POST /predict request is issued only by a step in which the
\* full validation pass returned pass, and every request's body carries five
\* finite non-negative numbers with 0 < monthly_income <= 150000,
\* monthly_expenses <= 150000 and |income - total allocation| <= 1.
C8_RequestsCarryValidBodies ==
    /\ [](\A i \in 1..Len(requests) : C8_BodyValid(requests[i].body))
    /\ [][Len(requests') > Len(requests)
            => /\ valid' = "pass"
               /\ requests' = Append(requests, [body |-> numericData(formData),
                                                at |-> "fetch"])]_vars

\* a request is in flight right after its validation passed
C8_Witness ==
    /\ valid = "pass"
    /\ Len(requests) = 1
    /\ requests[1].at = "fetch"
    /\ requests[1].body["monthly_income"] = IntNum(150000)

\* a request waiting for its response is gone: a non-2xx response or a
\* transport failure
C9_FetchFailed ==
    \E i \in 1..Len(requests) :
        /\ requests[i].at = "fetch"
        /\ requests' = Without(requests, i)

\* C9 (Spec): when the scoring request ends in a non-2xx response or a
\* transport failure, one alert is raised, there is no navigation, no field
\* value and no error entry is cleared, no request is issued again, and once
\* the alert is dismissed the loading flag returns to false with the form
\* still as it was.
C9_FailureAlertsAndKeepsForm ==
    /\ [][C9_FetchFailed
            => /\ pc = "idle"
               /\ pc' = "alert"
               /\ view' = view
               /\ navState' = navState
               /\ formData' = formData
               /\ errors' = errors]_vars
    /\ [][pc = "alert"
            => /\ pc' = "finally"
               /\ UNCHANGED <<formData, errors, requests, view, navState>>]_vars
    /\ [][(pc = "finally" /\ view = "form")
            => /\ pc' = "idle"
               /\ isLoading' = FALSE
               /\ UNCHANGED <<formData, errors, requests, view, navState>>]_vars

\* the alert is up over a form that still holds what was submitted
C9_Witness ==
    /\ pc = "alert"
    /\ view = "form"
    /\ isLoading
    /\ requests = <<>>
    /\ validateFormPasses(formData)

\* C10 (Spec): when the scoring request succeeds, the form first navigates
\* to the results view with the parsed response as prediction and the
\* request's numeric record as formData, only afterwards resets the five
\* fields and the error map to empty, and ends with the loading flag false.
C10_NavigateThenReset ==
    /\ [][(view = "form" /\ view' = "dashboard")
            => /\ \E i \in 1..Len(requests) : \E result \in Predictions :
                    /\ requests[i].at = "json"
                    /\ navState' = [prediction |-> result,
                                    formData |-> requests[i].body]
               /\ pc' = "navigated"
               /\ formData' = formData
               /\ errors' = errors
               /\ isLoading' = isLoading]_vars
    /\ [][pc = "navigated"
            => /\ pc' = "finally"
               /\ formData' = EmptyForm
               /\ errors' = NoErrors
               /\ UNCHANGED <<view, navState, isLoading>>]_vars
    /\ [][pc = "finally" => (pc' = "idle" /\ isLoading' = FALSE)]_vars
    /\ [](pc = "navigated" => (view = "dashboard" /\ isLoading))

\* navigated, the form not yet reset: it still holds fields and an error
C10_Witness ==
    /\ pc = "navigated"
    /\ view = "dashboard"
    /\ navState # NoState
    /\ formData # EmptyForm
    /\ errors # NoErrors

\* C11 (Spec): at most one POST /predict request is in flight at any time;
\* while one is in flight the loading flag is true and the submit control is
\* disabled, and a request is only ever issued when none is in flight.
C11_OneRequestInFlight ==
    /\ [](/\ Len(requests) <= 1
          /\ requests # <<>> => (isLoading /\ SubmitDisabled))
    /\ [][Len(requests') > Len(requests) => requests = <<>>]_vars

\* a request is in flight over a form that only the loading flag keeps from
\* being submitted again
C11_Witness ==
    /\ Len(requests) = 1
    /\ isLoading
    /\ view = "form"
    /\ validateFormPasses(formData)
    /\ calculateBalance(formData) = IntNum(0)
    /\ ~HasError(errors, "monthly_income")
    /\ ~HasError(errors, "monthly_expenses")

\* C12 (Spec): the results view issues GET /history only in a step taken
\* with a prediction in its navigation payload; without a prediction it does
\* nothing but redirect to the entry form, and no request of either kind is
\* issued or in flight.
C12_HistoryOnlyAfterPrediction ==
    /\ [][historyRequests' > historyRequests
            => (view = "dashboard" /\ HasPrediction)]_vars
    /\ [](view = "dashboard" /\ ~HasPrediction
            => (historyRequests = 0 /\ requests = <<>>))
    /\ [][(view = "dashboard" /\ ~HasPrediction)
            => /\ historyRequests' = 0
               /\ requests' = <<>>
               /\ \/ view' = "form"
                  \/ (dash = "mounted" /\ dash' = "rendered" /\ view' = view
                      /\ navState' = navState)]_vars
    /\ [][(view = "dashboard" /\ ~HasPrediction /\ dash = "rendered")
            => view' = "form"]_vars

\* the results view has seen its prediction and its history request is out
C12_Witness ==
    /\ view = "dashboard"
    /\ HasPrediction
    /\ dash = "effected"
    /\ historyRequests = 1

\* the change events on a field with the ceiling whose value is within the
\* bound: every one whose raw numeric value does not exceed 150,000, the
\* empty and the not yet parseable ones included
C13_EventsWithinBound ==
    {e \in ChangeEvents :
        e[1] \in BoundedFields /\ ~Gt(RawNumberOf[e], IntNum(150000))}

\* C13 (SpecChange), as claimed: a change event on monthly_income or
\* monthly_expenses whose value is within the 150,000 bound clears, in the
\* same step, a ceiling error set on that field before, whatever the new
\* value is, an empty or not yet parseable one included.
C13_WithinBoundClearsError ==
    [][\A e \in C13_EventsWithinBound :
          ( /\ handleChange(e[1], e[2])
            /\ HasError(errors, e[1])
            /\ errors[e[1]] = CeilingError(e[1]) )
          => ~HasError(errors', e[1])]_vars

\* C14 (Spec), as claimed: in every state of the entry form with no request
\* in flight in which the five stored values would pass the full validation
\* pass, the submit control is enabled.
C14_PassingFormEnablesSubmit ==
    ( /\ view = "form"
      /\ requests = <<>>
      /\ validateFormPasses(formData) )
    => ~SubmitDisabled

\* the whole number a record of the navigation payload carries in field f
C15_Value(f) == navState.formData[f].m * Pow10(navState.formData[f].x)

\* the four rules in whole-number arithmetic (income is positive):
\* expenses / income > 0.6, loan_emi / income > 0.3,
\* (savings + investments) / income < 0.2, investments < 0.5 x savings
C15_ExpensesFires == 10 * C15_Value("monthly_expenses") > 6 * C15_Value("monthly_income")
C15_DebtFires == 10 * C15_Value("loan_emi") > 3 * C15_Value("monthly_income")
C15_SavingsFires ==
    10 * (C15_Value("savings") + C15_Value("investments")) < 2 * C15_Value("monthly_income")
C15_InvestFires == 2 * C15_Value("investments") < C15_Value("savings")

C15_Returned == {recommendations[i] : i \in 1..Len(recommendations)}

\* C15 (SpecRecommend), as claimed: each of the four rule messages is in the
\* returned list exactly when its rule fires, and the fallback message is
\* returned exactly when no rule fires.
C15_EachMessageIffRule ==
    dash = "rendered"
    => /\ RecExpenses \in C15_Returned <=> C15_ExpensesFires
       /\ RecDebt \in C15_Returned <=> C15_DebtFires
       /\ RecSavings \in C15_Returned <=> C15_SavingsFires
       /\ RecInvest \in C15_Returned <=> C15_InvestFires
       /\ RecExcellent \in C15_Returned
            <=> ~(C15_ExpensesFires \/ C15_DebtFires \/ C15_SavingsFires \/ C15_InvestFires)

\* C15 (SpecRecommend), amended: the returned list holds at most three
\* messages, the first three in rule order of the rules that fire: the
\* messages of the expense, debt and savings rules are in it exactly when
\* their rules fire, the message of the investment rule exactly when its rule
\* fires and the other three do not all fire, and the fallback message
\* exactly when no rule fires.
C15_FirstThreeOfFired ==
    dash = "rendered"
    => /\ Len(recommendations) <= 3
       /\ RecExpenses \in C15_Returned <=> C15_ExpensesFires
       /\ RecDebt \in C15_Returned <=> C15_DebtFires
       /\ RecSavings \in C15_Returned <=> C15_SavingsFires
       /\ RecInvest \in C15_Returned
            <=> (C15_InvestFires
                 /\ ~(C15_ExpensesFires /\ C15_DebtFires /\ C15_SavingsFires))
       /\ RecExcellent \in C15_Returned
            <=> ~(C15_ExpensesFires \/ C15_DebtFires \/ C15_SavingsFires \/ C15_InvestFires)

\* all four rules fire and the list was cut to three
C15_Witness ==
    /\ dash = "rendered"
    /\ C15_ExpensesFires /\ C15_DebtFires /\ C15_SavingsFires /\ C15_InvestFires
    /\ recommendations = <<RecExpenses, RecDebt, RecSavings>>

\* C16 (SpecChange), as claimed: handleChange drops the last character of a
\* filtered text with more than one decimal point, and so every stored field
\* text holds at most one decimal point, whatever change events came before.
C16_AtMostOneDecimalPoint ==
    \A f \in Fields : DecimalCount(formData[f]) <= 1

\* C17 (Spec): the record handed to the results view is the body of the
\* request of the same submission, which stays as it was sent while fields
\* are edited in flight; the edited fields are emptied by the reset after the
\* navigation and are left as they are when the request fails.
C17_PayloadIsRequestBody ==
    /\ [][(requests # <<>> /\ Len(requests') = Len(requests))
            => \A i \in 1..Len(requests) : requests'[i].body = requests[i].body]_vars
    /\ [][(view = "form" /\ view' = "dashboard")
            => \E i \in 1..Len(requests) :
                  /\ requests' = Without(requests, i)
                  /\ navState'.formData = requests[i].body]_vars
    /\ [][pc = "navigated" => formData' = EmptyForm]_vars
    /\ [][(Len(requests') < Len(requests) /\ view' = "form")
            => (pc' = "alert" /\ formData' = formData)]_vars
    /\ [][(view = "form" /\ pc \in {"alert", "finally"}) => formData' = formData]_vars

\* navigated with a record that the fields, edited in flight and not yet
\* reset, no longer match
C17_Witness ==
    /\ pc = "navigated"
    /\ view = "dashboard"
    /\ HasPrediction
    /\ StoredNumber(formData["monthly_income"]) # navState.formData["monthly_income"]
    /\ formData["monthly_income"] # EmptyText

\* the text is the grouped rendering of a non-negative whole number
C18_IsGroupedWhole(text) ==
    LET n == StoredNumber(text)
    IN  /\ ~isNaN(n)
        /\ n.m >= 0
        /\ n.x >= 0
        /\ text = GroupIndian(ToDigits(n.m * Pow10(n.x)))

\* the text does not parse to a number
C18_IsUnparseable(text) == isNaN(StoredNumber(text))

C18_OnlyPointsAndSeparators(text) == \A i \in 1..Len(text) : text[i] \in {".", ","}

\* the full validation pass on the stored values yields neither the
\* negative-value error nor a 150,000 bound error
C18_NoNegativeNoCeiling ==
    \A f \in DOMAIN PerFieldErrors(formData) :
        PerFieldErrors(formData)[f] \notin {ErrNegative, ErrIncomeCeiling, ErrExpensesCeiling}

C19_BodyBalance(b) ==
    Minus(b["monthly_income"],
          Plus(Plus(Plus(b["monthly_expenses"], b["loan_emi"]), b["savings"]),
               b["investments"]))

\* C19 (Spec): whenever the submit control is enabled, income does not parse
\* to a positive number or the balance is exactly 0; so a validation pass
\* started through the control never leaves a sum-mismatch error, and every
\* request carries a body whose balance is exactly 0, never +1 or -1.
C19_EnabledMeansBalanced ==
    /\ []((view = "form" /\ ~SubmitDisabled)
            => (~Gt(Income, IntNum(0)) \/ Balance = IntNum(0)))
    /\ [][valid' # "unset"
            => /\ ~SubmitDisabled
               /\ \A f \in DOMAIN errors' : ~IsSumError(errors'[f])]_vars
    /\ [](\A i \in 1..Len(requests) : C19_BodyBalance(requests[i].body) = IntNum(0))

\* a validation pass started through the control has passed on a balance of 0
C19_Witness ==
    /\ valid = "pass"
    /\ Income = IntNum(1)
    /\ Gt(TotalAllocation, IntNum(0))
    /\ Balance = IntNum(0)
    /\ errors = NoErrors

\* the change events on field f whose value is parseable and within the bound
C20_ClearingEvents ==
    {e \in ChangeEvents :
        /\ e[1] \in BoundedFields
        /\ ~isNaN(RawNumberOf[e])
        /\ ~Gt(RawNumberOf[e], IntNum(150000))}

\* the change events on loan_emi, savings and investments
C20_PlainEvents == {e \in ChangeEvents : e[1] \notin BoundedFields}

\* an error on monthly_income or monthly_expenses keeps the submit control
\* disabled
C20_ErrorDisables ==
    (view = "form" /\ \E f \in BoundedFields : HasError(errors, f)) => SubmitDisabled

\* a change event on loan_emi, savings or investments clears that field's
\* own error and leaves every other entry of the error map as it was
C20_PlainClearsOwnOnly ==
    \A e \in C20_PlainEvents :
        handleChange(e[1], e[2])
        => /\ ~HasError(errors', e[1])
           /\ \A g \in Fields \ {e[1]} :
                 /\ g \in DOMAIN errors' <=> g \in DOMAIN errors
                 /\ g \in DOMAIN errors => errors'[g] = errors[g]

\* the step is a reset of the form: resetForm(), by Clear All or after a
\* successful submission
C20_IsReset == formData' = EmptyForm /\ errors' = NoErrors

\* C20 (Spec), as claimed: an error on monthly_income or monthly_expenses
\* keeps the submit control disabled, and goes away only in a change event on
\* that same field with a parseable value within the 150,000 bound; a change
\* event on one of the other three fields clears only that field's own entry.
C20_ErrorStaysUntilFieldChanged ==
    /\ []C20_ErrorDisables
    /\ [][\A f \in BoundedFields :
            (HasError(errors, f) /\ ~HasError(errors', f))
            => \E e \in C20_ClearingEvents : e[1] = f /\ handleChange(e[1], e[2])]_vars
    /\ [][C20_PlainClearsOwnOnly]_vars

\* C20 (Spec), amended: an error on monthly_income or monthly_expenses keeps
\* the submit control disabled, and goes away only in a change event on that
\* same field with a parseable value within the 150,000 bound or in a reset
\* of the form (Clear All, or the reset after a successful submission); a
\* change event on one of the other three fields clears only that field's
\* own entry.
C20_ErrorStaysUntilChangedOrReset ==
    /\ []C20_ErrorDisables
    /\ [][\A f \in BoundedFields :
            (HasError(errors, f) /\ ~HasError(errors', f))
            => \/ \E e \in C20_ClearingEvents : e[1] = f /\ handleChange(e[1], e[2])
               \/ C20_IsReset]_vars
    /\ [][C20_PlainClearsOwnOnly]_vars

\* a failed pass left errors; a change event on loan_emi has cleared its own
\* entry, the error on monthly_income is still there and the control disabled
C20_Witness ==
    /\ view = "form"
    /\ "monthly_income" \in DOMAIN errors
    /\ errors["monthly_income"] = ErrZeroIncome
    /\ "loan_emi" \in DOMAIN errors
    /\ errors["loan_emi"] = ""
    /\ formData["loan_emi"] # EmptyText
    /\ SubmitDisabled

=============================================================================
